---- MODULE Spec2Model ----
(***************************************************************************)
(* Verification model of chr_re: the Fitch parsimony method                *)
(* (methods/parsimony.py), the ensemble method (methods/ensemble.py), the  *)
(* tree/trait validation of the data loader (core/data_loader.py), the     *)
(* pipeline (core/pipeline.py), model comparison                           *)
(* (analysis/model_selection.py) and the framework (core/framework.py).    *)
(*                                                                         *)
(* A tree object is a record [parent, states, state].  parent maps every   *)
(* node 1..n to its parent (0 for the root, node 1); the children of a     *)
(* node are ordered by node id.  states and state are the ete3 features    *)
(* "states" and "state": functions whose DOMAIN is the set of nodes that   *)
(* carry the feature (hasattr(node, "states") is n \in DOMAIN states).     *)
(* A leaf's name is its node id, so traits maps leaf ids to observed       *)
(* states.  Observed states are the ranks 1..NumStates of the values in    *)
(* the state domain's total order.                                         *)
(***************************************************************************)
EXTENDS Integers, Sequences, FiniteSets, TLC

VARIABLES
    heap,       \* tree objects by identity; heap[1] is data.tree
    traits,     \* data.traits: leaf -> observed state
    pc,         \* position inside ParsimonyMethod.run / _fitch
    cur,        \* identity of the tree _fitch decorates (tree_copy)
    idx,        \* position of the running traversal
    score,      \* the local parsimony_score of _fitch
    results,    \* AnalysisResults returned to the top-level caller, in order
    raised,     \* exception the last top-level call raised ("" when it returned)
    ens,        \* frame of EnsembleMethod.run
    runLog,     \* the "---> Running method i/n" lines printed by the ensemble
    loaded,     \* outcome of the last DataLoader.load_phylo_data call
    pipe,       \* the Pipeline object and the frame of its run
    cmp,        \* argument and outcome of the last compare_models call
    fw          \* the ChromosomeReconstructionFramework object

vars == <<heap, traits, pc, cur, idx, score, results, raised, ens, runLog, loaded, pipe, cmp, fw>>

\* ---------------------------------------------------------------- bounds
MaxNodes == 5
NumStates == 3
MaxRuns == 2
MaxRepeatNodes == 4
MaxMethods == 2
MaxPartialNodes == 4
MaxResults == 2
MaxCalls == 3

States == 1..NumStates
DataTree == 1

\* ------------------------------------------------------------ tree model
Nodes(t) == DOMAIN t.parent
Root(t) == CHOOSE n \in Nodes(t) : t.parent[n] = 0
Children(t, n) == {c \in Nodes(t) : t.parent[c] = n}
IsLeaf(t, n) == Children(t, n) = {}
IsRoot(t, n) == t.parent[n] = 0
Leaves(t) == {n \in Nodes(t) : IsLeaf(t, n)}

Min(S) == CHOOSE x \in S : \A y \in S : x <= y

RECURSIVE SetToSeq(_)
SetToSeq(S) == IF S = {} THEN <<>> ELSE <<Min(S)>> \o SetToSeq(S \ {Min(S)})

\* node.children: the ordered list of a node's children
ChildSeq(t, n) == SetToSeq(Children(t, n))

RECURSIVE PostorderFrom(_, _)
RECURSIVE PostorderAll(_, _)
PostorderAll(t, cs) ==
    IF cs = <<>> THEN <<>> ELSE PostorderFrom(t, Head(cs)) \o PostorderAll(t, Tail(cs))
PostorderFrom(t, n) == PostorderAll(t, ChildSeq(t, n)) \o <<n>>
\* tree.traverse("postorder")
Postorder(t) == PostorderFrom(t, Root(t))

RECURSIVE PreorderFrom(_, _)
RECURSIVE PreorderAll(_, _)
PreorderAll(t, cs) ==
    IF cs = <<>> THEN <<>> ELSE PreorderFrom(t, Head(cs)) \o PreorderAll(t, Tail(cs))
PreorderFrom(t, n) == <<n>> \o PreorderAll(t, ChildSeq(t, n))
\* tree.traverse("preorder")
Preorder(t) == PreorderFrom(t, Root(t))

\* rooted trees on 1..n, every node numbered after its parent
ParentMaps(n) == {p \in [1..n -> 0..n] : p[1] = 0 /\ \A k \in 2..n : p[k] \in 1..(k - 1)}

Undecorated(p) == [parent |-> p, states |-> <<>>, state |-> <<>>]

\* one tree per ordered shape: nodes numbered in preorder
InputTrees ==
    {t \in {Undecorated(p) : p \in UNION {ParentMaps(n) : n \in 1..MaxNodes}} :
        Preorder(t) = [i \in 1..Cardinality(Nodes(t)) |-> i]}

\* node.add_feature(name, value)
AddFeature(f, n, v) == [m \in DOMAIN f \cup {n} |-> IF m = n THEN v ELSE f[m]]


\* ------------------------------------------------ configuration dicts
ConfNone == [none |-> TRUE]
Dict(d) == [none |-> FALSE, dict |-> d]
HasKey(config, k) == ~config.none /\ k \in DOMAIN config.dict

\* str.lower() on the option values the model uses
Lower(s) ==
    CASE s = "Fitch" -> "fitch"
      [] s = "FITCH" -> "fitch"
      [] s = "Sankoff" -> "sankoff"
      [] s = "Wagner" -> "wagner"
      [] s = "ML" -> "ml"
      [] OTHER -> s

\* variant: no default algorithm
AlgorithmNoDefault(config) ==
    IF HasKey(config, "algorithm") THEN config.dict["algorithm"] ELSE ""

\* config.get("algorithm", "Fitch") after `if config is None: config = {}`
Algorithm(config) ==
    IF HasKey(config, "algorithm") THEN config.dict["algorithm"] ELSE "Fitch"

ParsimonyConfigs ==
    { ConfNone,
      Dict(<<>>),
      Dict([algorithm |-> "Fitch"]),
      Dict([algorithm |-> "FITCH"]),
      Dict([algorithm |-> "Sankoff"]),
      Dict([algorithm |-> "sankoff", cost_matrix |-> "M"]),
      Dict([algorithm |-> "Wagner"]) }

\* what ParsimonyMethod.run does after copying the tree
ParsimonyDispatch(config) ==
    IF Lower(Algorithm(config)) = "fitch" THEN "fitch"
    ELSE IF Lower(Algorithm(config)) = "sankoff"
         THEN IF ~HasKey(config, "cost_matrix") THEN "ValueError" ELSE "NotImplementedError"
         ELSE "ValueError"

\* ------------------------------------------------------ Fitch, down-pass
Range(f) == {f[i] : i \in DOMAIN f}

\* child_states_sets = [child.states for child in node.children]
ChildStatesSets(t, n) ==
    [i \in 1..Len(ChildSeq(t, n)) |-> t.states[ChildSeq(t, n)[i]]]

\* set.intersection(*sets) and set.union(*sets) on a non-empty list of sets
SetIntersection(sets) == {s \in UNION Range(sets) : \A i \in DOMAIN sets : s \in sets[i]}
SetUnion(sets) == UNION Range(sets)

PairwiseDisjoint(sets) ==
    \A i, j \in DOMAIN sets : i # j => sets[i] \cap sets[j] = {}

\* variant: counts a change only when the children's sets are pairwise disjoint
ScoreIncrementPairwise(sets) == IF PairwiseDisjoint(sets) THEN 1 ELSE 0

\* variant: every multi-child node is counted
ScoreIncrementEveryNode(sets) == 1

\* the increment of parsimony_score at one multi-child node
ScoreIncrement(sets) == IF SetIntersection(sets) = {} THEN 1 ELSE 0

\* variant: the counter is not reset between runs
InitialScoreStale(previous) == previous

\* the value of parsimony_score before the first traversal
InitialScore(previous) == 0

\* variant: a name missing from the table reads as the first state
TraitLookupDefault(name) ==
    [ok |-> TRUE, value |-> IF name \in DOMAIN traits THEN traits[name] ELSE 1]

\* variant: the first row of the table is read whatever the name
TraitLookupFirstRow(name) == [ok |-> TRUE, value |-> traits[Min(DOMAIN traits)]]

\* `traits.loc[tip_name].iloc[0]`: the lookup fails (KeyError) on a name the
\* table does not hold
TraitLookup(name) ==
    IF name \in DOMAIN traits
    THEN [ok |-> TRUE, value |-> traits[name]]
    ELSE [ok |-> FALSE, value |-> 0]

\* variant: the children's sets are always united
DownStatesUnionOnly(t, n) ==
    IF IsLeaf(t, n) THEN {TraitLookup(n).value}
    ELSE IF Len(ChildStatesSets(t, n)) = 1 THEN ChildStatesSets(t, n)[1]
    ELSE SetUnion(ChildStatesSets(t, n))

\* variant: the children's sets are always intersected
DownStatesIntersectionOnly(t, n) ==
    IF IsLeaf(t, n) THEN {TraitLookup(n).value}
    ELSE IF Len(ChildStatesSets(t, n)) = 1 THEN ChildStatesSets(t, n)[1]
    ELSE SetIntersection(ChildStatesSets(t, n))

\* the "states" feature the down-pass gives node n of tree t
DownStates(t, n) ==
    IF IsLeaf(t, n) THEN {TraitLookup(n).value}
    ELSE LET css == ChildStatesSets(t, n) IN
         IF Len(css) = 0 THEN {}
         ELSE IF Len(css) = 1 THEN css[1]
         ELSE IF SetIntersection(css) # {} THEN SetIntersection(css)
         ELSE SetUnion(css)

\* variant: a single-child node is counted as a change
DownCostCountsUnary(t, n) ==
    IF IsLeaf(t, n) THEN 0
    ELSE IF Len(ChildSeq(t, n)) = 1 THEN 1
    ELSE ScoreIncrement(ChildStatesSets(t, n))

\* variant: only nodes with exactly two children are counted
DownCostBinaryOnly(t, n) ==
    IF IsLeaf(t, n) \/ Len(ChildSeq(t, n)) # 2 THEN 0
    ELSE ScoreIncrement(ChildStatesSets(t, n))

\* what the down-pass adds to parsimony_score at node n of tree t
DownCost(t, n) ==
    IF IsLeaf(t, n) \/ Len(ChildSeq(t, n)) < 2 THEN 0
    ELSE ScoreIncrement(ChildStatesSets(t, n))

\* list(node.states)[0]: the first element in the set's iteration order,
\* which is the order of the hash table, not of the state domain
\* (list({1, 8})[0] is 8): any member can come first
FirstOf(S) == S

\* variant: _fitch is handed data.tree itself
WorkingTreeInPlace(original, copy) == original

\* the tree object ParsimonyMethod.run hands to _fitch
WorkingTree(original, copy) == copy

AnalysisResult(tree, params, rawOutput) ==
    [annotated_tree |-> tree, parameters |-> params,
     likelihood |-> "None", raw_output |-> rawOutput]

SetHeap(id, t) == [heap EXCEPT ![id] = t]

\* ---------------------------------------------------------- Fitch, up-pass
\* variant: a leaf below a resolved parent takes the parent's state
LeafStateInherited(t, n) ==
    IF ~IsRoot(t, n) /\ t.parent[n] \in DOMAIN t.state
    THEN t.state[t.parent[n]]
    ELSE traits[n]

\* the observed value a leaf is resolved to
LeafState(t, n) == TraitLookup(n).value

\* variant: the parent's state is inherited without the membership test
AlwaysInherits(parentState, S) == TRUE

\* variant: the parent's state is never inherited
NeverInherits(parentState, S) == FALSE

\* `if parent_state in node.states`
InheritsParent(parentState, S) == parentState \in S

\* the root's "state" feature after the root assignment: the possible outcomes
RootOutcomes(t) ==
    LET r == Root(t) IN
    IF Children(t, r) # {} /\ ~IsLeaf(t, r) /\ r \in DOMAIN t.states /\ t.states[r] # {}
    THEN {AddFeature(t.state, r, s) : s \in FirstOf(t.states[r])}
    ELSE {t.state}

\* the "state" features after one iteration of the pre-order loop at node n:
\* the possible outcomes
UpOutcomes(t, n) ==
    IF IsRoot(t, n) \/ IsLeaf(t, n)
    THEN IF IsLeaf(t, n) /\ n \notin DOMAIN t.state
         THEN {AddFeature(t.state, n, LeafState(t, n))}
         ELSE {t.state}
    ELSE IF t.parent[n] \notin DOMAIN t.state
    THEN IF n \in DOMAIN t.states /\ t.states[n] # {}
         THEN {AddFeature(t.state, n, s) : s \in FirstOf(t.states[n])}
         ELSE {t.state}
    ELSE LET parentState == t.state[t.parent[n]] IN
         IF n \in DOMAIN t.states /\ t.states[n] # {}
         THEN IF InheritsParent(parentState, t.states[n])
              THEN {AddFeature(t.state, n, parentState)}
              ELSE {AddFeature(t.state, n, s) : s \in FirstOf(t.states[n])}
         ELSE IF n \in DOMAIN t.states
              THEN {AddFeature(t.state, n, parentState)}
              ELSE {t.state}

\* ------------------------------------------------------------ ensemble
NoTree == 0
\* the frame of EnsembleMethod.run: its config argument, method_configs_list,
\* the loop position and all_individual_results; called is FALSE until the
\* first call
NoFrame ==
    [active |-> FALSE, called |-> FALSE, config |-> ConfNone,
     methods |-> <<>>, i |-> 0, out |-> <<>>]

\* str.upper() on the model names the model uses
Upper(s) ==
    CASE s \in {"bm", "Bm", "bM"} -> "BM"
      [] s \in {"ou", "Ou", "oU"} -> "OU"
      [] s = "eb" -> "EB"
      [] s = "bmm" -> "BMM"
      [] OTHER -> s

\* variant: the model name is compared as it is written
MaximumLikelihoodOutcomeCaseSensitive(config) ==
    IF ~HasKey(config, "model") THEN "ValueError"
    ELSE IF config.dict["model"] \in {"BM", "OU"} THEN "NotImplementedError"
    ELSE "ValueError"

\* MaximumLikelihoodMethod.run: every path raises
MaximumLikelihoodOutcome(config) ==
    IF ~HasKey(config, "model") THEN "ValueError"
    ELSE IF Upper(config.dict["model"]) = "BM" THEN "NotImplementedError"
    ELSE IF Upper(config.dict["model"]) = "OU" THEN "NotImplementedError"
    ELSE "ValueError"

\* the configs MaximumLikelihoodMethod.run is called with
ModelNames == {"BM", "bm", "Bm", "OU", "ou", "oU", "EB", "eb", "bmm", ""}

MaximumLikelihoodConfigs ==
    {ConfNone, Dict(<<>>), Dict([algorithm |-> "Fitch"])}
        \cup {Dict([model |-> name]) : name \in ModelNames}

BayesianConfigs == {ConfNone, Dict(<<>>), Dict([model_type |-> "Mk"])}

\* BayesianMethod.run: raises after reading its options
BayesianOutcome(config) == "NotImplementedError"

\* method_instance.run(data, specific_method_config): "fitch" when the call
\* goes on to run _fitch, else the exception it raises
MethodOutcome(entry) ==
    CASE entry.method = "ParsimonyMethod" -> ParsimonyDispatch(entry.config)
      [] entry.method = "MaximumLikelihoodMethod" -> MaximumLikelihoodOutcome(entry.config)
      [] entry.method = "BayesianMethod" -> BayesianOutcome(entry.config)

BaseMethods == {"ParsimonyMethod", "MaximumLikelihoodMethod", "BayesianMethod"}

Entry(m, c) == [tuple |-> TRUE, method |-> m, config |-> c]

\* the entries a 'methods' list is drawn from: method/config pairs, and the
\* three malformed shapes (not a 2-tuple, no BaseMethod first, no dict second)
MethodEntries ==
    { Entry("ParsimonyMethod", Dict([algorithm |-> "Fitch"])),
      Entry("ParsimonyMethod", Dict([algorithm |-> "Sankoff"])),
      Entry("ParsimonyMethod", Dict([algorithm |-> "sankoff", cost_matrix |-> "M"])),
      Entry("MaximumLikelihoodMethod", Dict([model |-> "bm"])),
      Entry("MaximumLikelihoodMethod", Dict([model |-> "BM"])),
      Entry("MaximumLikelihoodMethod", Dict(<<>>)),
      Entry("BayesianMethod", Dict(<<>>)),
      [tuple |-> FALSE],
      Entry("object", Dict(<<>>)),
      Entry("ParsimonyMethod", ConfNone) }

MethodLists == UNION {[1..n -> MethodEntries] : n \in 0..MaxMethods}

\* a value of the 'methods' key: a list of entries, or something else
ListValue(l) == [list |-> TRUE, items |-> l]
NotAList == [list |-> FALSE, items |-> <<>>]

EnsembleConfigs ==
    {ConfNone, Dict(<<>>), Dict([methods |-> NotAList])}
        \cup {Dict([methods |-> ListValue(l)]) : l \in MethodLists}

\* variant: an empty list is rejected with the missing key
EnsembleConfigErrorRejectsEmpty(config) ==
    IF ~HasKey(config, "methods") THEN "ValueError"
    ELSE IF ~config.dict["methods"].list THEN "ValueError"
    ELSE IF config.dict["methods"].items = <<>> THEN "ValueError"
    ELSE ""

\* variant: the value of 'methods' is not checked to be a list
EnsembleConfigErrorAnyValue(config) ==
    IF ~HasKey(config, "methods") THEN "ValueError" ELSE ""

\* the two checks on the config of EnsembleMethod.run: "" when it passes
EnsembleConfigError(config) ==
    IF ~HasKey(config, "methods") THEN "ValueError"
    ELSE IF ~config.dict["methods"].list THEN "ValueError"
    ELSE ""

\* the result returned for an empty methods list
EmptyEnsembleResult ==
    AnalysisResult(NoTree, [ensemble_size |-> 0, info |-> "No methods provided"], <<>>)

\* the result returned after the loop
EnsembleResult(out, methods) ==
    AnalysisResult(NoTree,
        [ensemble_size |-> Len(out), methods_configured |-> Len(methods)],
        out)

\* variant: the second element is not checked to be a dict
EntryErrorNoDictCheck(entry) ==
    IF ~entry.tuple THEN "ValueError"
    ELSE IF entry.method \notin BaseMethods THEN "TypeError"
    ELSE ""

\* the three checks on one entry of the list: "" when it passes
EntryError(entry) ==
    IF ~entry.tuple THEN "ValueError"
    ELSE IF entry.method \notin BaseMethods THEN "TypeError"
    ELSE IF entry.config.none THEN "ValueError"
    ELSE ""

ExceptionClasses == {"ValueError", "TypeError", "KeyError", "NotImplementedError"}

\* variant: only the unimplemented case is handled
CaughtNotImplementedOnly(exc) == exc = "NotImplementedError"

\* the try statement around the sub-run: `except NotImplementedError` and
\* `except Exception` between them handle every Exception subclass
Caught(exc) == exc \in ExceptionClasses

\* variant: every failure is recorded as an error
FailureRecordAllErrors(exc, entry) ==
    [status |-> "error", method |-> entry.method, error |-> exc]

\* the record appended for a sub-run that raised exc
FailureRecord(exc, entry) ==
    [status |-> IF exc = "NotImplementedError" THEN "not_implemented" ELSE "error",
     method |-> entry.method,
     error |-> exc]

\* -------------------------------------------------------------- loader
NotLoaded == [status |-> "none"]

SpeciesNames == {"A", "B", "C", "D"}

TreeFormats ==
    { [type |-> "str", value |-> "newick"], [type |-> "str", value |-> "Nexus"],
      [type |-> "str", value |-> "phyloxml"], [type |-> "int", value |-> "0"],
      [type |-> "float", value |-> "0.0"] }

FileStates == {"ok", "missing", "malformed"}

\* tree_format.lower() on the format names the model uses
FormatLower(s) == IF s = "Nexus" THEN "nexus" ELSE s

\* the translation of tree_format: "" when it is accepted
FormatError(fmt) ==
    IF fmt.type = "str"
    THEN IF FormatLower(fmt.value) \in {"newick", "nexus"} THEN "" ELSE "ValueError"
    ELSE IF fmt.type = "int" THEN "" ELSE "TypeError"

LoadError(kind, reason, parts, tips, keys, parsed) ==
    [status |-> "error", kind |-> kind, reason |-> reason, parts |-> parts,
     tips |-> tips, keys |-> keys, parsed |-> parsed]

Part(label, names) == [label |-> label, names |-> names]

\* variant: only the first direction found is reported
MismatchPartsFirstOnly(tips, keys) ==
    IF keys \ tips # {} THEN <<Part("in counts file but not in tree", keys \ tips)>>
    ELSE <<Part("in tree but not in counts file", tips \ keys)>>

\* error_msg_parts: one part per direction that has names
MismatchParts(tips, keys) ==
    (IF keys \ tips # {}
     THEN <<Part("in counts file but not in tree", keys \ tips)>> ELSE <<>>)
    \o
    (IF tips \ keys # {}
     THEN <<Part("in tree but not in counts file", tips \ keys)>> ELSE <<>>)

\* `tree_tips != trait_species`, negated
TipsMatch(tips, keys) == tips = keys

\* variant: the two sets are compared without the checks for emptiness
ValidateWithoutEmptyChecks(tips, keys) ==
    IF ~TipsMatch(tips, keys)
    THEN LoadError("ValueError", "mismatch", MismatchParts(tips, keys), tips, keys, TRUE)
    ELSE [status |-> "ok", kind |-> "", reason |-> "", parts |-> <<>>,
          tips |-> tips, keys |-> keys, parsed |-> TRUE]

\* the data validation of load_phylo_data on the leaf names of the parsed
\* tree and the index of the parsed trait table
Validate(tips, keys) ==
    IF tips = {} THEN LoadError("ValueError", "no leaf nodes", <<>>, tips, keys, TRUE)
    ELSE IF keys = {} THEN LoadError("ValueError", "no species", <<>>, tips, keys, TRUE)
    ELSE IF ~TipsMatch(tips, keys)
    THEN LoadError("ValueError", "mismatch", MismatchParts(tips, keys), tips, keys, TRUE)
    ELSE [status |-> "ok", kind |-> "", reason |-> "", parts |-> <<>>,
          tips |-> tips, keys |-> keys, parsed |-> TRUE]

\* load_phylo_data: the outcome for a tree_format, the state of the two
\* files, the presence of the two columns and the names the files hold
LoadOutcome(fmt, treeFile, countsFile, hasSpeciesCol, hasCountsCol, tips, keys) ==
    IF FormatError(fmt) # "" THEN LoadError(FormatError(fmt), "tree_format", <<>>, {}, {}, FALSE)
    ELSE IF treeFile = "missing" THEN LoadError("FileNotFoundError", "tree file", <<>>, {}, {}, FALSE)
    ELSE IF treeFile = "malformed" THEN LoadError("ValueError", "tree file", <<>>, {}, {}, FALSE)
    ELSE IF countsFile = "missing" THEN LoadError("FileNotFoundError", "counts file", <<>>, {}, {}, FALSE)
    ELSE IF countsFile = "malformed" THEN LoadError("ValueError", "counts file", <<>>, {}, {}, FALSE)
    ELSE IF ~hasSpeciesCol THEN LoadError("ValueError", "species column", <<>>, {}, {}, FALSE)
    ELSE IF ~hasCountsCol THEN LoadError("ValueError", "counts column", <<>>, {}, {}, FALSE)
    ELSE Validate(tips, keys)

\* ------------------------------------------------------ model selection
NotCompared == [status |-> "none"]

\* an optional value: <<>> for None or a missing key, else <<v>>
Absent == <<>>
Some(v) == <<v>>

LogLikelihoods == (0 - 2)..0
ParamCounts == 1..2

\* the AnalysisResults compare_models is called on: likelihood may be None,
\* parameters may lack "num_params" and "model_name"
ComparedResults ==
    [likelihood : {Absent} \cup {Some(l) : l \in LogLikelihoods},
     num_params : {Absent} \cup {Some(k) : k \in ParamCounts},
     model_name : {Absent, Some("BM"), Some("OU")}]

ResultLists == UNION {[1..n -> ComparedResults] : n \in 0..MaxResults}

\* variant: the log-likelihood is added
CalculateAicAdded(log_likelihood, num_params) == 2 * num_params + 2 * log_likelihood

\* calculate_aic
CalculateAic(log_likelihood, num_params) == 2 * num_params - 2 * log_likelihood

\* the two `continue` tests of the loop, negated
Comparable(result) == result.likelihood # Absent /\ result.num_params # Absent

\* the row appended for a comparable result
TableRow(result) ==
    [model_name |-> IF result.model_name # Absent THEN result.model_name[1] ELSE "Unknown",
     log_likelihood |-> result.likelihood[1],
     num_params |-> result.num_params[1],
     aic |-> CalculateAic(result.likelihood[1], result.num_params[1])]

\* comparison_table after the loop
RECURSIVE ComparisonTable(_)
ComparisonTable(rs) ==
    IF rs = <<>> THEN <<>>
    ELSE (IF Comparable(Head(rs)) THEN <<TableRow(Head(rs))>> ELSE <<>>)
             \o ComparisonTable(Tail(rs))

\* list.sort(key=aic): a stable sort, rows of equal aic keep their order
RECURSIVE InsertRow(_, _)
InsertRow(sorted, row) ==
    IF sorted = <<>> THEN <<row>>
    ELSE IF sorted[Len(sorted)].aic <= row.aic THEN Append(sorted, row)
    ELSE Append(InsertRow(SubSeq(sorted, 1, Len(sorted) - 1), row), sorted[Len(sorted)])

RECURSIVE SortByAic(_)
SortByAic(table) ==
    IF table = <<>> THEN <<>>
    ELSE InsertRow(SortByAic(SubSeq(table, 1, Len(table) - 1)), table[Len(table)])

\* compare_models(results): the dict returned, or the error raised
CompareModelsOutcome(rs) ==
    IF rs = <<>>
    THEN [status |-> "error", kind |-> "ValueError", reason |-> "empty list",
          input |-> rs, comparison |-> <<>>]
    ELSE IF ComparisonTable(rs) = <<>>
    THEN [status |-> "error", kind |-> "ValueError", reason |-> "no valid results",
          input |-> rs, comparison |-> <<>>]
    ELSE [status |-> "ok", kind |-> "", reason |-> "",
          input |-> rs, comparison |-> SortByAic(ComparisonTable(rs))]

\* ------------------------------------------------------------ pipeline
\* no Pipeline constructed: method is "" until Pipeline.__init__ stores one;
\* calls lists the method.run calls Pipeline.run made, returned holds the
\* value the method handed back to it
NoPipe ==
    [method |-> "", running |-> FALSE, config |-> ConfNone,
     calls |-> <<>>, returned |-> <<>>]

MethodClasses == BaseMethods \cup {"EnsembleMethod"}

\* `isinstance(method, BaseMethod)`, negated: "" when the method is accepted
PipelineInitError(method) == IF method \in MethodClasses THEN "" ELSE "TypeError"

\* variant: the config is not handed on
PipelineConfigDropped(config) == ConfNone

\* the config Pipeline.run hands to the method
PipelineConfig(config) == config

\* the value Pipeline.run returns for the value the method returned
PipelineReturn(value) == value

\* ----------------------------------------------------------- framework
\* the framework after __init__: phylo_data, tree, counts and
\* reconstruction_results are None (<<>>), else <<x>> with x the identity of
\* the object held: the number of the load_data call that built the PhyloData,
\* the position in results of the value a run returned.  calls counts the
\* calls made, last names the latest one, running and kwargs are the frame
\* of a reconstruct_ancestors call that has not ended
NoFramework ==
    [phylo_data |-> <<>>, tree |-> <<>>, counts |-> <<>>,
     reconstruction_results |-> <<>>,
     calls |-> 0, last |-> "", running |-> FALSE, kwargs |-> ConfNone]

\* _get_method_instance(method_name): the class instantiated, "" when the
\* name is unknown and ValueError is raised
GetMethodInstance(method_name) ==
    LET name == Lower(method_name) IN
    CASE name = "parsimony" -> "ParsimonyMethod"
      [] name \in {"ml", "maximum_likelihood"} -> "MaximumLikelihoodMethod"
      [] name = "bayesian" -> "BayesianMethod"
      [] name = "ensemble" -> "EnsembleMethod"
      [] OTHER -> ""

\* variant: reconstruct_ancestors without the check of self.phylo_data
DataNotLoadedUnchecked(f) == ""

\* `if self.phylo_data is None: raise ValueError`, "" when data is loaded
DataNotLoaded(f) == IF f.phylo_data = <<>> THEN "ValueError" ELSE ""

\* variant: the three attributes are reset before the loader is called
LoadDataAttributesResetFirst(f, outcome, obj) ==
    IF outcome.status = "ok"
    THEN [f EXCEPT !.phylo_data = <<obj>>, !.tree = <<obj>>, !.counts = <<obj>>]
    ELSE [f EXCEPT !.phylo_data = <<>>, !.tree = <<>>, !.counts = <<>>]

\* the attributes load_data leaves behind: assigned after load_phylo_data
\* returned the PhyloData obj, untouched when it raised
LoadDataAttributes(f, outcome, obj) ==
    IF outcome.status = "ok"
    THEN [f EXCEPT !.phylo_data = <<obj>>, !.tree = <<obj>>, !.counts = <<obj>>]
    ELSE f

\* `self.reconstruction_results = current_pipeline.run(...)` once run returned
FrameworkReturn(f, result) ==
    IF f.running
    THEN [f EXCEPT !.running = FALSE, !.reconstruction_results = <<result>>]
    ELSE f

\* an exception leaves reconstruct_ancestors through its except clauses,
\* which print and re-raise
FrameworkRaise(f) == [f EXCEPT !.running = FALSE]

\* the load_data calls explored: readable matching files, a missing tree
\* file, a table without rows, a tree_format that is not a string
FrameworkLoadInputs ==
    [fmt : {[type |-> "str", value |-> "newick"]},
     treeFile : {"ok", "missing"}, countsFile : {"ok"},
     hasSpeciesCol : {TRUE}, hasCountsCol : {TRUE},
     tips : {{"A", "B"}}, keys : {{"A", "B"}}]
    \cup
    [fmt : {[type |-> "str", value |-> "newick"], [type |-> "int", value |-> "0"]},
     treeFile : {"ok"}, countsFile : {"ok"},
     hasSpeciesCol : {TRUE}, hasCountsCol : {TRUE},
     tips : {{"A", "B"}}, keys : {{}}]

\* the reconstruct_ancestors(method, **kwargs) calls explored
ReconstructCalls ==
    { [method |-> "parsimony", kwargs |-> Dict(<<>>)],
      [method |-> "parsimony", kwargs |-> Dict([algorithm |-> "Sankoff"])],
      [method |-> "ML", kwargs |-> Dict([model |-> "BM"])],
      [method |-> "maximum_likelihood", kwargs |-> Dict(<<>>)],
      [method |-> "bayesian", kwargs |-> Dict(<<>>)],
      [method |-> "ensemble", kwargs |-> Dict(<<>>)],
      [method |-> "ensemble",
       kwargs |-> Dict([methods |-> ListValue(
                     <<Entry("ParsimonyMethod", Dict(<<>>)),
                       Entry("MaximumLikelihoodMethod", Dict([model |-> "BM"]))>>)])],
      [method |-> "wagner", kwargs |-> Dict(<<>>)] }

\* ------------------------------------------------------------- actions
\* a value returned to the top-level caller, through Pipeline.run when the
\* call came from it
TopReturn(frame, value) ==
    IF frame.running
    THEN /\ results' = Append(results, PipelineReturn(value))
         /\ pipe' = [frame EXCEPT !.running = FALSE, !.returned = <<value>>]
         /\ fw' = FrameworkReturn(fw, Len(results) + 1)
    ELSE /\ results' = Append(results, value)
         /\ pipe' = frame
         /\ UNCHANGED fw

\* an exception that reaches the top-level caller
TopRaise(frame, exc) ==
    /\ raised' = exc
    /\ pipe' = [frame EXCEPT !.running = FALSE]
    /\ fw' = FrameworkRaise(fw)

\* a value returned by a method reaches the ensemble loop that called it,
\* else the top-level caller
Deliver(result) ==
    IF ens.active
    THEN /\ ens' = [ens EXCEPT !.out = Append(@, result), !.i = @ + 1]
         /\ UNCHANGED <<results, pipe, fw>>
    ELSE /\ TopReturn(pipe, result)
         /\ UNCHANGED ens

\* an exception raised inside _fitch: the try statement of the ensemble loop
\* records it, else it reaches the top-level caller
Throw(exc) ==
    IF ens.active /\ Caught(exc)
    THEN /\ ens' = [ens EXCEPT
                      !.out = Append(@, FailureRecord(exc, ens.methods[ens.i])),
                      !.i = @ + 1]
         /\ UNCHANGED <<raised, pipe, fw>>
    ELSE /\ TopRaise(pipe, exc)
         /\ ens' = [ens EXCEPT !.active = FALSE]

\* ParsimonyMethod.run up to the call of _fitch, for a call on tree object
\* DataTree: copy the tree, then dispatch on the algorithm
StartFitch ==
    /\ heap' = Append(heap, heap[DataTree])
    /\ cur' = WorkingTree(DataTree, Len(heap) + 1)
    /\ pc' = "down"
    /\ idx' = 1
    /\ score' = InitialScore(score)

\* a top-level call ParsimonyMethod().run(data, config)
ParsimonyRun ==
    /\ pc = "idle"
    /\ ~ens.active
    /\ Len(heap) - 1 < MaxRuns
    /\ Len(heap) = 1 \/ Cardinality(Nodes(heap[DataTree])) <= MaxRepeatNodes
    /\ \E config \in ParsimonyConfigs :
         IF ParsimonyDispatch(config) = "fitch"
         THEN /\ StartFitch
              /\ raised' = ""
              /\ UNCHANGED <<traits, results, ens, runLog, loaded, pipe, cmp, fw>>
         ELSE \* the copy made before the dispatch is dropped by the raise
              /\ raised' = ParsimonyDispatch(config)
              /\ UNCHANGED <<heap, traits, pc, cur, idx, score, results, ens, runLog, loaded, pipe, cmp, fw>>

\* one iteration of the post-order loop of _fitch
FitchDown ==
    /\ pc = "down"
    /\ LET t == heap[cur]
           order == Postorder(t)
           n == order[idx]
       IN IF IsLeaf(t, n) /\ ~TraitLookup(n).ok
          THEN \* the lookup raises: the run ends, the copy is dropped as it is
               /\ Throw("KeyError")
               /\ pc' = "idle"
               /\ cur' = 0
               /\ idx' = 0
               /\ UNCHANGED <<heap, score, results>>
          ELSE /\ heap' = SetHeap(cur, [t EXCEPT !.states = AddFeature(@, n, DownStates(t, n))])
               /\ score' = score + DownCost(t, n)
               /\ IF idx < Len(order)
                  THEN idx' = idx + 1 /\ pc' = "down"
                  ELSE idx' = 0 /\ pc' = "root"
               /\ UNCHANGED <<cur, results, raised, ens, pipe, fw>>
    /\ UNCHANGED <<traits, runLog, loaded, cmp>>

\* the root assignment between the two traversals
FitchRoot ==
    /\ pc = "root"
    /\ \E st \in RootOutcomes(heap[cur]) :
         heap' = SetHeap(cur, [heap[cur] EXCEPT !.state = st])
    /\ pc' = "up"
    /\ idx' = 1
    /\ UNCHANGED <<traits, cur, score, results, raised, ens, runLog, loaded, pipe, cmp, fw>>

\* one iteration of the pre-order loop of _fitch
FitchUp ==
    /\ pc = "up"
    /\ LET t == heap[cur]
           order == Preorder(t)
           n == order[idx]
       IN /\ \E st \in UpOutcomes(t, n) :
               heap' = SetHeap(cur, [t EXCEPT !.state = st])
          /\ IF idx < Len(order)
             THEN idx' = idx + 1 /\ pc' = "up"
             ELSE idx' = 0 /\ pc' = "return"
    /\ UNCHANGED <<traits, cur, score, results, raised, ens, runLog, loaded, pipe, cmp, fw>>

\* `return tree, parsimony_score` and the AnalysisResult run builds from it
FitchReturn ==
    /\ pc = "return"
    /\ Deliver(AnalysisResult(cur,
                   [parsimony_score |-> score, model_name |-> "Fitch Parsimony"],
                   "None"))
    /\ pc' = "idle"
    /\ cur' = 0
    /\ UNCHANGED <<heap, traits, idx, score, raised, runLog, loaded, cmp>>

\* EnsembleMethod.run(data, config) up to the loop, called from frame
EnsembleEnter(frame, config) ==
    IF EnsembleConfigError(config) # ""
    THEN /\ TopRaise(frame, EnsembleConfigError(config))
         /\ ens' = [NoFrame EXCEPT !.called = TRUE, !.config = config]
         /\ UNCHANGED results
    ELSE IF config.dict["methods"].items = <<>>
    THEN /\ TopReturn(frame, EmptyEnsembleResult)
         /\ ens' = [NoFrame EXCEPT !.called = TRUE, !.config = config]
         /\ UNCHANGED raised
    ELSE /\ ens' = [active |-> TRUE, called |-> TRUE, config |-> config,
                    methods |-> config.dict["methods"].items,
                    i |-> 1, out |-> <<>>]
         /\ pipe' = frame
         /\ UNCHANGED <<raised, results, fw>>

\* a top-level call EnsembleMethod().run(data, config), up to the loop
EnsembleRun ==
    /\ pc = "idle"
    /\ ~ens.active
    /\ ~ens.called
    /\ results = <<>>
    /\ raised = ""
    /\ pipe = NoPipe
    /\ \E config \in EnsembleConfigs : EnsembleEnter(pipe, config)
    /\ UNCHANGED <<heap, traits, pc, cur, idx, score, runLog, loaded, cmp>>

\* one iteration of the loop over the methods list, up to the return of the
\* sub-run or, for a Fitch sub-run, up to the call of _fitch
EnsembleStep ==
    /\ ens.active
    /\ pc = "idle"
    /\ ens.i <= Len(ens.methods)
    /\ LET entry == ens.methods[ens.i] IN
       IF EntryError(entry) # ""
       THEN /\ TopRaise(pipe, EntryError(entry))
            /\ ens' = [ens EXCEPT !.active = FALSE]
            /\ UNCHANGED <<heap, pc, cur, idx, score, runLog>>
       ELSE /\ runLog' = Append(runLog, ens.i)
            /\ IF MethodOutcome(entry) = "fitch"
               THEN /\ StartFitch
                    /\ UNCHANGED <<ens, raised, pipe, fw>>
               ELSE IF Caught(MethodOutcome(entry))
               THEN /\ ens' = [ens EXCEPT
                                 !.out = Append(@, FailureRecord(MethodOutcome(entry), entry)),
                                 !.i = @ + 1]
                    /\ UNCHANGED <<heap, pc, cur, idx, score, raised, pipe, fw>>
               ELSE /\ TopRaise(pipe, MethodOutcome(entry))
                    /\ ens' = [ens EXCEPT !.active = FALSE]
                    /\ UNCHANGED <<heap, pc, cur, idx, score>>
    /\ UNCHANGED <<traits, results, loaded, cmp>>

\* the return of EnsembleMethod.run after the loop
EnsembleReturn ==
    /\ ens.active
    /\ pc = "idle"
    /\ ens.i > Len(ens.methods)
    /\ TopReturn(pipe, EnsembleResult(ens.out, ens.methods))
    /\ ens' = [ens EXCEPT !.active = FALSE]
    /\ UNCHANGED <<heap, traits, pc, cur, idx, score, raised, runLog, loaded, cmp>>

\* Pipeline(method)
PipelineInit ==
    /\ pipe = NoPipe
    /\ raised = ""
    /\ \E method \in MethodClasses \cup {"object"} :
         IF PipelineInitError(method) # ""
         THEN raised' = PipelineInitError(method) /\ UNCHANGED <<pipe, fw>>
         ELSE pipe' = [pipe EXCEPT !.method = method] /\ UNCHANGED <<raised, fw>>
    /\ UNCHANGED <<heap, traits, pc, cur, idx, score, results, ens, runLog, loaded, cmp>>

\* the configs Pipeline.run is called with, by the class of its method
MethodConfigs(method) ==
    CASE method = "ParsimonyMethod" -> ParsimonyConfigs
      [] method = "MaximumLikelihoodMethod" -> MaximumLikelihoodConfigs
      [] method = "BayesianMethod" -> BayesianConfigs
      [] method = "EnsembleMethod" -> EnsembleConfigs

\* pipeline.run(data, config), up to the return of self.method.run or, for a
\* method that goes on, up to its first step
PipelineRun ==
    /\ pipe.method # ""
    /\ pipe.calls = <<>>
    /\ ~pipe.running
    /\ pc = "idle"
    /\ ~ens.active
    /\ \E config \in IF fw.running THEN {fw.kwargs} ELSE MethodConfigs(pipe.method) :
         LET call == [method |-> pipe.method, config |-> PipelineConfig(config)]
             frame == [pipe EXCEPT !.running = TRUE, !.config = config,
                                   !.calls = Append(@, call)]
         IN IF call.method = "EnsembleMethod"
            THEN /\ EnsembleEnter(frame, call.config)
                 /\ UNCHANGED <<heap, pc, cur, idx, score>>
            ELSE IF MethodOutcome(call) = "fitch"
            THEN /\ StartFitch
                 /\ pipe' = frame
                 /\ UNCHANGED <<results, raised, ens, fw>>
            ELSE /\ TopRaise(frame, MethodOutcome(call))
                 /\ UNCHANGED <<heap, pc, cur, idx, score, results, ens>>
    /\ UNCHANGED <<traits, runLog, loaded, cmp>>

\* the calls explored: every combination of format, file states and columns
\* on one pair of files, and every pair of name sets on readable files (a
\* parsed tree has at least one leaf, a table may have no rows)
LoadInputs ==
    [fmt : TreeFormats, treeFile : FileStates, countsFile : FileStates,
     hasSpeciesCol : BOOLEAN, hasCountsCol : BOOLEAN,
     tips : {{"A", "B"}}, keys : {{"A", "B"}}]
    \cup
    [fmt : {[type |-> "str", value |-> "newick"]}, treeFile : {"ok"}, countsFile : {"ok"},
     hasSpeciesCol : {TRUE}, hasCountsCol : {TRUE},
     tips : (SUBSET SpeciesNames) \ {{}}, keys : SUBSET SpeciesNames]

\* readable files whose tree yields an empty list of leaf names: a tree
\* parsed by ete3 has a leaf, so these inputs reach the check
\* `if not tree_tips` only if get_leaf_names returns an empty list
LeaflessInputs ==
    [fmt : {[type |-> "str", value |-> "newick"]}, treeFile : {"ok"}, countsFile : {"ok"},
     hasSpeciesCol : {TRUE}, hasCountsCol : {TRUE},
     tips : {{}}, keys : SUBSET SpeciesNames]

\* load_phylo_data(tree_path, counts_path, tree_format) on one of inputs
LoadCall(inputs) ==
    \E in \in inputs :
       loaded' = LoadOutcome(in.fmt, in.treeFile, in.countsFile,
                             in.hasSpeciesCol, in.hasCountsCol, in.tips, in.keys)

\* a call of load_phylo_data on a tree without leaf names
LoadLeaflessTree ==
    /\ pc = "idle"
    /\ ~ens.active
    /\ LoadCall(LeaflessInputs)
    /\ UNCHANGED <<heap, traits, pc, cur, idx, score, results, raised, ens, runLog, pipe, cmp, fw>>

\* a call DataLoader().load_phylo_data(tree_path, counts_path, tree_format)
LoadPhyloData ==
    /\ pc = "idle"
    /\ ~ens.active
    /\ LoadCall(LoadInputs)
    /\ UNCHANGED <<heap, traits, pc, cur, idx, score, results, raised, ens, runLog, pipe, cmp, fw>>

\* ------------------------------------------------ specification: Fitch

InitFitch ==
    /\ \E t \in InputTrees :
         /\ heap = <<t>>
         /\ traits \in [Leaves(t) -> States]
    /\ pc = "idle"
    /\ cur = 0
    /\ idx = 0
    /\ score = 0
    /\ results = <<>>
    /\ raised = ""
    /\ ens = NoFrame
    /\ runLog = <<>>
    /\ loaded = NotLoaded
    /\ pipe = NoPipe
    /\ cmp = NotCompared
    /\ fw = NoFramework

NextFitch == ParsimonyRun \/ FitchDown \/ FitchRoot \/ FitchUp \/ FitchReturn

SpecFitch == InitFitch /\ [][NextFitch]_vars

\* ------------------------- specification: Fitch on a partial trait table
\* a PhyloData built by hand: the trait table holds some of the leaves
InitFitchPartial ==
    /\ \E t \in InputTrees :
         /\ Cardinality(Nodes(t)) <= MaxPartialNodes
         /\ heap = <<t>>
         /\ \E held \in SUBSET Leaves(t) : traits \in [held -> States]
    /\ pc = "idle"
    /\ cur = 0
    /\ idx = 0
    /\ score = 0
    /\ results = <<>>
    /\ raised = ""
    /\ ens = NoFrame
    /\ runLog = <<>>
    /\ loaded = NotLoaded
    /\ pipe = NoPipe
    /\ cmp = NotCompared
    /\ fw = NoFramework

SpecFitchPartial == InitFitchPartial /\ [][NextFitch]_vars

\* --------------------------------------------- specification: ensemble
\* the three-leaf star tree, with every assignment of two states to its leaves
ExampleTree == Undecorated(<<0, 1, 1, 1>>)

InitEnsemble ==
    /\ heap = <<ExampleTree>>
    /\ traits \in [Leaves(ExampleTree) -> {1, 2}]
    /\ pc = "idle"
    /\ cur = 0
    /\ idx = 0
    /\ score = 0
    /\ results = <<>>
    /\ raised = ""
    /\ ens = NoFrame
    /\ runLog = <<>>
    /\ loaded = NotLoaded
    /\ pipe = NoPipe
    /\ cmp = NotCompared
    /\ fw = NoFramework

NextEnsemble ==
    EnsembleRun \/ EnsembleStep \/ EnsembleReturn
        \/ FitchDown \/ FitchRoot \/ FitchUp \/ FitchReturn

SpecEnsemble == InitEnsemble /\ [][NextEnsemble]_vars

\* a call compare_models(results)
CompareModels ==
    /\ cmp = NotCompared
    /\ \E rs \in ResultLists : cmp' = CompareModelsOutcome(rs)
    /\ UNCHANGED <<heap, traits, pc, cur, idx, score, results, raised, ens, runLog, loaded, pipe, fw>>

\* --------------------------------------------- specification: pipeline
\* a Pipeline constructed and run once on the three-leaf star tree
InitPipeline == InitEnsemble

NextPipeline ==
    PipelineInit \/ PipelineRun \/ EnsembleStep \/ EnsembleReturn
        \/ FitchDown \/ FitchRoot \/ FitchUp \/ FitchReturn

SpecPipeline == InitPipeline /\ [][NextPipeline]_vars

\* ----------------------------------------------- specification: loader
InitLoad ==
    /\ heap = <<>>
    /\ traits = <<>>
    /\ pc = "idle"
    /\ cur = 0
    /\ idx = 0
    /\ score = 0
    /\ results = <<>>
    /\ raised = ""
    /\ ens = NoFrame
    /\ runLog = <<>>
    /\ loaded = NotLoaded
    /\ pipe = NoPipe
    /\ cmp = NotCompared
    /\ fw = NoFramework

NextLoad == LoadPhyloData

SpecLoad == InitLoad /\ [][NextLoad]_vars

\* the loader, called on trees with and without leaf names
NextLoadAnyTree == LoadPhyloData \/ LoadLeaflessTree

SpecLoadAnyTree == InitLoad /\ [][NextLoadAnyTree]_vars

\* -------------------------------------- specification: model selection
\* no tree and no trait table: compare_models reads its argument only
InitCompare == InitLoad

NextCompare == CompareModels

SpecCompare == InitCompare /\ [][NextCompare]_vars

\* ------------------------------------------- specification: framework
\* load_data(tree_path, counts_path, tree_format): the loader call, then the
\* three assignments; an exception of the loader is printed and re-raised
LoadData ==
    /\ ~fw.running
    /\ pc = "idle"
    /\ ~ens.active
    /\ fw.calls < MaxCalls
    /\ \E in \in FrameworkLoadInputs :
         LET outcome == LoadOutcome(in.fmt, in.treeFile, in.countsFile,
                                    in.hasSpeciesCol, in.hasCountsCol, in.tips, in.keys)
             f == [fw EXCEPT !.calls = @ + 1, !.last = "load_data"]
         IN /\ loaded' = outcome
            /\ raised' = IF outcome.status = "ok" THEN "" ELSE outcome.kind
            /\ fw' = LoadDataAttributes(f, outcome, f.calls)
    /\ UNCHANGED <<heap, traits, pc, cur, idx, score, results, ens, runLog, pipe, cmp>>

\* reconstruct_ancestors(method, **kwargs) up to the construction of the
\* Pipeline; PipelineRun is the call current_pipeline.run(data, config=kwargs)
ReconstructAncestors ==
    /\ ~fw.running
    /\ pc = "idle"
    /\ ~ens.active
    /\ fw.calls < MaxCalls
    /\ \E call \in ReconstructCalls :
         LET f == [fw EXCEPT !.calls = @ + 1, !.last = "reconstruct_ancestors"]
             instance == GetMethodInstance(call.method)
         IN IF DataNotLoaded(fw) # ""
            THEN raised' = DataNotLoaded(fw) /\ fw' = f /\ UNCHANGED pipe
            ELSE IF instance = ""
            THEN raised' = "ValueError" /\ fw' = f /\ UNCHANGED pipe
            ELSE IF PipelineInitError(instance) # ""
            THEN raised' = PipelineInitError(instance) /\ fw' = f /\ UNCHANGED pipe
            ELSE /\ pipe' = [NoPipe EXCEPT !.method = instance]
                 /\ fw' = [f EXCEPT !.running = TRUE, !.kwargs = call.kwargs]
                 /\ raised' = ""
    /\ UNCHANGED <<heap, traits, pc, cur, idx, score, results, ens, runLog, loaded, cmp>>

\* one framework on the three-leaf star tree: the files hold that tree and
\* its trait table
InitFramework == InitEnsemble

NextFramework ==
    LoadData \/ ReconstructAncestors \/ PipelineRun \/ EnsembleStep \/ EnsembleReturn
        \/ FitchDown \/ FitchRoot \/ FitchUp \/ FitchReturn

SpecFramework == InitFramework /\ [][NextFramework]_vars

\* ============================================================ claims
ResultTree(i) == heap[results[i].annotated_tree]
ResultScore(i) == results[i].parameters.parsimony_score

\* the children of n share no state: every state is missing from some child
NoCommonState(t, n) == \A s \in States : \E c \in Children(t, n) : s \notin t.states[c]
ForcedChangeNodes(t) ==
    {n \in Nodes(t) : Cardinality(Children(t, n)) >= 2 /\ NoCommonState(t, n)}

\* C1: after a Fitch run the parsimony score equals the number of nodes with
\* two or more children whose children's candidate sets have an empty common
\* intersection.
C1_ScoreCountsEmptyIntersections ==
    \A i \in DOMAIN results : ResultScore(i) = Cardinality(ForcedChangeNodes(ResultTree(i)))

\* a run on a tree with a node of three or more children whose sets are not
\* pairwise disjoint but have no common state
C1_Witness ==
    \E i \in DOMAIN results : \E n \in Nodes(ResultTree(i)) :
        /\ Cardinality(Children(ResultTree(i), n)) >= 3
        /\ NoCommonState(ResultTree(i), n)
        /\ ~PairwiseDisjoint(ChildStatesSets(ResultTree(i), n))
        /\ ResultScore(i) >= 1

\* C2: in the returned tree every node has a resolved state, and it is a
\* member of the node's candidate set.
C2_StateInStates ==
    \A i \in DOMAIN results : \A n \in Nodes(ResultTree(i)) :
        /\ n \in DOMAIN ResultTree(i).state
        /\ n \in DOMAIN ResultTree(i).states
        /\ ResultTree(i).state[n] \in ResultTree(i).states[n]

\* a returned tree with a non-root internal node that could not inherit
C2_Witness ==
    \E i \in DOMAIN results : \E n \in Nodes(ResultTree(i)) :
        /\ ~IsRoot(ResultTree(i), n)
        /\ ~IsLeaf(ResultTree(i), n)
        /\ ResultTree(i).state[ResultTree(i).parent[n]] \notin ResultTree(i).states[n]

\* C3: in the returned tree every leaf's resolved state is the value observed
\* for it, whatever its parent was resolved to.
C3_LeafKeepsObserved ==
    \A i \in DOMAIN results : \A n \in Leaves(ResultTree(i)) :
        /\ n \in DOMAIN ResultTree(i).state
        /\ ResultTree(i).state[n] = traits[n]

\* a returned tree with a leaf whose parent is resolved to another state
C3_Witness ==
    \E i \in DOMAIN results : \E n \in Leaves(ResultTree(i)) :
        /\ ~IsRoot(ResultTree(i), n)
        /\ ResultTree(i).state[ResultTree(i).parent[n]] # traits[n]

\* the number of branches of t whose endpoints differ under assignment a
Changes(t, a) == Cardinality({n \in Nodes(t) : ~IsRoot(t, n) /\ a[n] # a[t.parent[n]]})

\* the small-parsimony optimum of t for the observed leaf states
MinChanges(t) ==
    LET labelings == {a \in [Nodes(t) -> States] : \A n \in Leaves(t) : a[n] = traits[n]}
        costs == {Changes(t, a) : a \in labelings}
    IN Min(costs)

\* C4: the returned parsimony score is the small-parsimony optimum, for trees
\* of every shape.
C4_ScoreIsOptimum ==
    \A i \in DOMAIN results : ResultScore(i) = MinChanges(ResultTree(i))

\* C5: a non-leaf root is resolved to the minimum of its candidate set.
C5_RootIsMinimum ==
    \A i \in DOMAIN results :
        LET t == ResultTree(i) IN
        ~IsLeaf(t, Root(t)) => t.state[Root(t)] = Min(t.states[Root(t)])

\* C6: all Fitch runs on the same data return the same score, and no score
\* is negative.
C6_ScoreDeterministic ==
    \A i, j \in DOMAIN results : ResultScore(i) = ResultScore(j) /\ ResultScore(i) >= 0

\* two completed runs on data whose score is positive
C6_Witness == Len(results) = 2 /\ ResultScore(1) >= 1

ResultTreesFresh ==
    \A i \in DOMAIN results :
        /\ results[i].annotated_tree # DataTree
        /\ \A j \in DOMAIN results : i # j => results[i].annotated_tree # results[j].annotated_tree

\* C7: no step changes the caller's tree object (structure or decorations),
\* and every run returns a tree object other than the caller's and other than
\* the trees of the other runs.
C7_OriginalUntouched ==
    [][heap'[DataTree] = heap[DataTree] /\ ResultTreesFresh']_vars

\* two completed runs, both returned trees decorated
C7_Witness ==
    /\ Len(results) = 2
    /\ \A i \in DOMAIN results : DOMAIN ResultTree(i).state = Nodes(ResultTree(i))
    /\ Cardinality(Nodes(heap[DataTree])) >= 3

IsUnary(t, n) == Cardinality(Children(t, n)) = 1
OnlyChild(t, n) == CHOOSE c \in Children(t, n) : TRUE

UnaryPassThrough ==
    \A i \in DOMAIN results : \A n \in Nodes(ResultTree(i)) :
        IsUnary(ResultTree(i), n) =>
            ResultTree(i).states[n] = ResultTree(i).states[OnlyChild(ResultTree(i), n)]

\* C8: the down-pass step at a node with exactly one child leaves the score
\* unchanged and gives the node its child's candidate set; the returned tree
\* still shows it.
C8_UnaryPassThrough ==
    [][ /\ (pc = "down" /\ IsUnary(heap[cur], Postorder(heap[cur])[idx])) =>
            LET n == Postorder(heap[cur])[idx] IN
            /\ score' = score
            /\ heap'[cur].states[n] = heap[cur].states[OnlyChild(heap[cur], n)]
        /\ UnaryPassThrough' ]_vars

\* a run on a tree whose root is unary, whose only child is unary again, with
\* a forced change below
C8_Witness ==
    \E i \in DOMAIN results :
        LET t == ResultTree(i) IN
        /\ IsUnary(t, Root(t))
        /\ IsUnary(t, OnlyChild(t, Root(t)))
        /\ ResultScore(i) >= 1

\* the names an error reports under a label
Reported(label) ==
    UNION {loaded.parts[k].names : k \in {j \in DOMAIN loaded.parts : loaded.parts[j].label = label}}

ReportsBothDirections ==
    /\ loaded.status = "error"
    /\ loaded.reason = "mismatch"
    /\ Reported("in counts file but not in tree") = loaded.keys \ loaded.tips
    /\ Reported("in tree but not in counts file") = loaded.tips \ loaded.keys

Parsed == loaded.status # "none" /\ loaded.parsed

\* C9 as stated: a load of a parsed tree and table succeeds iff the leaf names
\* and the trait keys are the same set, and whenever they differ the error
\* reports both directions of the difference.
C9_MismatchReportsBoth ==
    Parsed =>
        /\ loaded.status = "ok" <=> loaded.tips = loaded.keys
        /\ loaded.tips # loaded.keys => ReportsBothDirections

\* C9 amended: a load of a parsed tree and table succeeds iff the leaf names
\* and the trait keys are the same non-empty set, and whenever they differ and
\* neither is empty the one error raised reports both directions.
C9_MismatchReportsBothNonEmpty ==
    Parsed =>
        /\ loaded.status = "ok" <=>
               (loaded.tips = loaded.keys /\ loaded.tips # {} /\ loaded.keys # {})
        /\ (loaded.tips # loaded.keys /\ loaded.tips # {} /\ loaded.keys # {})
               => ReportsBothDirections

\* leaves {A,B,C} against keys {A,B,D}: D and C are reported together
C9_Witness ==
    /\ Parsed
    /\ loaded.tips = {"A", "B", "C"}
    /\ loaded.keys = {"A", "B", "D"}
    /\ Len(loaded.parts) = 2
    /\ Reported("in counts file but not in tree") = {"D"}
    /\ Reported("in tree but not in counts file") = {"C"}

WellFormed(methods) == \A k \in DOMAIN methods : EntryError(methods[k]) = ""

\* the kind of raw_output entry a method's outcome calls for
EntryMatches(entry, out) ==
    IF MethodOutcome(entry) = "fitch"
    THEN /\ "annotated_tree" \in DOMAIN out
         /\ out.annotated_tree \in DOMAIN heap
         /\ out.annotated_tree # DataTree
    ELSE /\ "status" \in DOMAIN out
         /\ out.method = entry.method
         /\ out.error = MethodOutcome(entry)

\* C10: a run over a well-formed non-empty list never raises; the methods are
\* started in list order, each once; the result returned has one entry per
\* method, entry k being the outcome of method k.
C10_EveryMethodRunsOnce ==
    (ens.methods # <<>> /\ WellFormed(ens.methods)) =>
        /\ raised = ""
        /\ \A k \in DOMAIN runLog : runLog[k] = k
        /\ Len(runLog) \in {ens.i - 1, ens.i}
        /\ ens.active \/ /\ Len(results) = 1
                         /\ Len(runLog) = Len(ens.methods)
                         /\ Len(results[1].raw_output) = Len(ens.methods)
                         /\ \A k \in DOMAIN ens.methods :
                               EntryMatches(ens.methods[k], results[1].raw_output[k])

\* a finished run whose first method failed with an error and whose second
\* method ran Fitch
C10_Witness ==
    /\ ~ens.active
    /\ Len(ens.methods) = 2
    /\ Len(results) = 1
    /\ MethodOutcome(ens.methods[1]) = "ValueError"
    /\ MethodOutcome(ens.methods[2]) = "fitch"
    /\ results[1].raw_output[1].status = "error"
    /\ results[1].raw_output[2].parameters.parsimony_score = 1

\* the finished ensemble runs: the results returned by EnsembleMethod.run
\* over a non-empty list
RawOutput == results[1].raw_output
EnsembleReturned == ens.called /\ ~ens.active /\ Len(results) = 1 /\ ens.methods # <<>>

\* the status the outcome of a sub-run calls for
OutcomeStatus(entry, success, unimplemented, error) ==
    IF MethodOutcome(entry) = "fitch" THEN success
    ELSE IF MethodOutcome(entry) = "NotImplementedError" THEN unimplemented
    ELSE error

\* the parsimony score of the three-leaf star tree
ExampleScore == IF \E a, b \in DOMAIN traits : traits[a] # traits[b] THEN 1 ELSE 0

\* C11 as stated: every entry of raw_output is a record with a status among
\* success, error and unimplemented: success for a sub-run that returned,
\* unimplemented for an unimplemented variant, error for any other failure.
C11_StatusRecords ==
    EnsembleReturned =>
        \A k \in DOMAIN RawOutput :
            /\ "status" \in DOMAIN RawOutput[k]
            /\ RawOutput[k].status =
                   OutcomeStatus(ens.methods[k], "success", "unimplemented", "error")

\* C11 amended: the entry of a sub-run that returned is the AnalysisResult it
\* returned, with no status field and with its own parameters (the parsimony
\* score of the tree); the entry of a sub-run that raised is a record of
\* status, method and error whose status is not_implemented for an
\* unimplemented variant and error for any other failure.
C11_ResultOrFailureRecord ==
    EnsembleReturned =>
        \A k \in DOMAIN RawOutput :
            IF MethodOutcome(ens.methods[k]) = "fitch"
            THEN /\ DOMAIN RawOutput[k] =
                       {"annotated_tree", "parameters", "likelihood", "raw_output"}
                 /\ RawOutput[k].parameters.parsimony_score = ExampleScore
            ELSE /\ DOMAIN RawOutput[k] = {"status", "method", "error"}
                 /\ RawOutput[k].status =
                        OutcomeStatus(ens.methods[k], "", "not_implemented", "error")
                 /\ RawOutput[k].method = ens.methods[k].method

\* the run of [(Parsimony, {algorithm: Fitch}), (ML, {model: BM})] on the star
\* tree whose leaves hold two equal states and a third one
C11_Witness ==
    /\ EnsembleReturned
    /\ ens.methods = << Entry("ParsimonyMethod", Dict([algorithm |-> "Fitch"])),
                        Entry("MaximumLikelihoodMethod", Dict([model |-> "BM"])) >>
    /\ traits[2] = 1 /\ traits[3] = 1 /\ traits[4] = 2
    /\ Len(RawOutput) = 2
    /\ RawOutput[1].parameters.parsimony_score = 1
    /\ RawOutput[2].status = "not_implemented"

\* the config of the last call of EnsembleMethod.run holds an empty list
EmptyListCall ==
    /\ ens.called
    /\ HasKey(ens.config, "methods")
    /\ ens.config.dict["methods"].list
    /\ ens.config.dict["methods"].items = <<>>

\* C12: a call with an empty methods list raises nothing and returns one
\* result with ensemble_size 0, an empty raw_output and no annotated tree; no
\* method is run and no tree is copied.
C12_EmptyListAccepted ==
    EmptyListCall =>
        /\ raised = ""
        /\ Len(results) = 1
        /\ results[1].parameters.ensemble_size = 0
        /\ results[1].raw_output = <<>>
        /\ results[1].annotated_tree = NoTree
        /\ runLog = <<>>
        /\ Len(heap) = 1
        /\ pc = "idle" /\ ~ens.active

\* a call with an empty list has returned its result
C12_Witness == EmptyListCall /\ Len(results) = 1 /\ results[1].raw_output = <<>>

\* C13: every result returned by EnsembleMethod.run, for an empty list or not,
\* has no annotated tree, parameters holding both ensemble_size and
\* methods_configured, and one raw_output entry per method.
C13_ResultCarriesBothCounts ==
    \A i \in DOMAIN results :
        /\ results[i].annotated_tree = NoTree
        /\ {"ensemble_size", "methods_configured"} \subseteq DOMAIN results[i].parameters
        /\ Len(results[i].raw_output) = Len(ens.methods)

\* the config of the last call of EnsembleMethod.run is None, has no 'methods'
\* key, or holds something that is not a list under it
MalformedCall ==
    /\ ens.called
    /\ \/ ens.config.none
       \/ "methods" \notin DOMAIN ens.config.dict
       \/ ~ens.config.dict["methods"].list

\* C17: a call whose config is None, lacks 'methods' or holds a non-list under
\* it raises ValueError, returns nothing and runs no method.
C17_MalformedConfigRejected ==
    MalformedCall =>
        /\ raised = "ValueError"
        /\ results = <<>>
        /\ runLog = <<>>
        /\ Len(heap) = 1
        /\ pc = "idle" /\ ~ens.active

\* a call whose 'methods' is not a list has been rejected
C17_Witness ==
    /\ ens.called
    /\ ~ens.config.none
    /\ "methods" \in DOMAIN ens.config.dict
    /\ ~ens.config.dict["methods"].list
    /\ raised = "ValueError"

\* Pipeline.run was called and has returned or raised
PipelineDone == pipe.calls # <<>> /\ ~pipe.running
PipelineDoneWith(method) == PipelineDone /\ pipe.method = method

\* the model names the claim calls recognized: BM and OU in any letter case
RecognizedModels == {"BM", "Bm", "bM", "bm", "OU", "Ou", "oU", "ou"}

\* C14: a call of MaximumLikelihoodMethod.run never returns a result; it
\* raises ValueError when the config is None or has no model or names a model
\* that is not recognized, and NotImplementedError when the model is BM or OU
\* in any letter case.
C14_ValidatesBeforeUnimplemented ==
    PipelineDoneWith("MaximumLikelihoodMethod") =>
        /\ results = <<>>
        /\ Len(heap) = 1
        /\ raised = IF pipe.config.none THEN "ValueError"
                    ELSE IF "model" \notin DOMAIN pipe.config.dict THEN "ValueError"
                    ELSE IF pipe.config.dict["model"] \in RecognizedModels
                         THEN "NotImplementedError"
                    ELSE "ValueError"

\* a call with the model written in mixed case has raised NotImplementedError
C14_Witness ==
    /\ PipelineDoneWith("MaximumLikelihoodMethod")
    /\ pipe.config = Dict([model |-> "oU"])
    /\ raised = "NotImplementedError"

\* the algorithm a config asks ParsimonyMethod.run for, in lower case
AskedAlgorithm ==
    IF pipe.config.none THEN "fitch"
    ELSE IF "algorithm" \notin DOMAIN pipe.config.dict THEN "fitch"
    ELSE IF pipe.config.dict["algorithm"] \in {"Fitch", "FITCH", "fitch"} THEN "fitch"
    ELSE IF pipe.config.dict["algorithm"] \in {"Sankoff", "SANKOFF", "sankoff"} THEN "sankoff"
    ELSE "other"

\* C15: ParsimonyMethod.run runs Fitch when the config is None, has no
\* algorithm or names Fitch, and then returns one result; it raises ValueError
\* for Sankoff without a cost_matrix, NotImplementedError for Sankoff with
\* one, and ValueError for any other name; only a Fitch call is ever running.
C15_DispatchOnAlgorithm ==
    /\ (pipe.method = "ParsimonyMethod" /\ pipe.running) => AskedAlgorithm = "fitch"
    /\ PipelineDoneWith("ParsimonyMethod") =>
          IF AskedAlgorithm = "fitch"
          THEN /\ raised = ""
               /\ Len(results) = 1
               /\ results[1].parameters.parsimony_score = ExampleScore
          ELSE /\ results = <<>>
               /\ raised = IF AskedAlgorithm = "other" THEN "ValueError"
                           ELSE IF "cost_matrix" \in DOMAIN pipe.config.dict
                                THEN "NotImplementedError"
                           ELSE "ValueError"

\* a call without a config has returned a Fitch result
C15_Witness ==
    /\ PipelineDoneWith("ParsimonyMethod")
    /\ pipe.config = ConfNone
    /\ Len(results) = 1
    /\ results[1].parameters.model_name = "Fitch Parsimony"

\* C16: Pipeline.run calls run of the method the Pipeline holds, once, with
\* the config it was given; what it returns is the value the method returned;
\* when the method raised, nothing is returned and the method's exception is
\* what the caller gets.
C16_PipelineDelegates ==
    (pipe.calls # <<>>) =>
        /\ pipe.calls = <<[method |-> pipe.method, config |-> pipe.config]>>
        /\ PipelineDone =>
              IF raised = ""
              THEN Len(results) = 1 /\ pipe.returned = <<results[1]>>
              ELSE /\ results = <<>>
                   /\ pipe.returned = <<>>
                   /\ pipe.method \in BaseMethods => raised = MethodOutcome(pipe.calls[1])

\* a Pipeline holding a ParsimonyMethod has handed back its Fitch result
C16_Witness ==
    /\ PipelineDoneWith("ParsimonyMethod")
    /\ pipe.config = Dict([algorithm |-> "Fitch"])
    /\ pipe.returned # <<>>
    /\ results = pipe.returned
    /\ results[1].parameters.parsimony_score = 1

\* C18: a load whose tree has no leaf names fails with the error for an
\* empty tree, and a load whose tree has leaves and whose trait table has no
\* keys fails with the error for an empty table; neither is reported as a
\* mismatch and neither lists names.
C18_EmptyInputsHaveOwnErrors ==
    (loaded.status # "none" /\ loaded.parsed) =>
        /\ loaded.tips = {} =>
              /\ loaded.status = "error"
              /\ loaded.kind = "ValueError"
              /\ loaded.reason = "no leaf nodes"
              /\ loaded.parts = <<>>
        /\ (loaded.tips # {} /\ loaded.keys = {}) =>
              /\ loaded.status = "error"
              /\ loaded.kind = "ValueError"
              /\ loaded.reason = "no species"
              /\ loaded.parts = <<>>

\* a tree with leaves was loaded with an empty trait table
C18_Witness ==
    /\ loaded.status = "error"
    /\ loaded.parsed
    /\ loaded.tips = {"A", "B"}
    /\ loaded.keys = {}
    /\ loaded.reason = "no species"

\* the leaves of the data tree the trait table does not hold
MissingLeaves == Leaves(heap[DataTree]) \ DOMAIN traits

\* C19: while some leaf is missing from the trait table, no call returns a
\* result, no Fitch run gets past its post-order traversal, and a Fitch run
\* ends by raising KeyError.
C19_MissingTraitFails ==
    [][MissingLeaves # {} =>
          /\ results' = <<>>
          /\ pc' \in {"idle", "down"}
          /\ (pc = "down" /\ pc' = "idle") => raised' = "KeyError"]_vars

\* a Fitch run on a tree with a leaf missing from the table has raised
C19_Witness ==
    /\ MissingLeaves # {}
    /\ Len(heap) = 2
    /\ pc = "idle"
    /\ raised = "KeyError"
    /\ results = <<>>

\* the positions of the input that hold both a likelihood and num_params
ComparablePositions ==
    {i \in DOMAIN cmp.input :
        cmp.input[i].likelihood # <<>> /\ cmp.input[i].num_params # <<>>}

\* row is the input at position i with its AIC
RowOf(row, i) ==
    /\ row.log_likelihood = cmp.input[i].likelihood[1]
    /\ row.num_params = cmp.input[i].num_params[1]
    /\ row.model_name =
          (IF cmp.input[i].model_name = <<>> THEN "Unknown" ELSE cmp.input[i].model_name[1])
    /\ row.aic = 2 * cmp.input[i].num_params[1] - 2 * cmp.input[i].likelihood[1]

\* C20: compare_models raises ValueError when the list is empty or holds no
\* input with both a likelihood and num_params; otherwise its table has one
\* row for each such input and no other row, each row carrying that input's
\* AIC = 2*num_params - 2*likelihood, in ascending order of AIC.
C20_RanksComparableByAic ==
    (cmp.status # "none") =>
        IF ComparablePositions = {}
        THEN cmp.status = "error" /\ cmp.kind = "ValueError" /\ cmp.comparison = <<>>
        ELSE /\ cmp.status = "ok"
             /\ Len(cmp.comparison) = Cardinality(ComparablePositions)
             /\ \E f \in [DOMAIN cmp.comparison -> ComparablePositions] :
                   /\ \A j, k \in DOMAIN f : j # k => f[j] # f[k]
                   /\ \A j \in DOMAIN f : RowOf(cmp.comparison[j], f[j])
             /\ \A j \in 1..(Len(cmp.comparison) - 1) :
                   cmp.comparison[j].aic <= cmp.comparison[j + 1].aic

\* two comparable inputs given in descending order of AIC came back reversed,
\* the one with a log-likelihood of zero included
C20_Witness ==
    /\ cmp.status = "ok"
    /\ Len(cmp.input) = 2
    /\ cmp.input[1] = [likelihood |-> <<0 - 2>>, num_params |-> <<2>>, model_name |-> <<"OU">>]
    /\ cmp.input[2] = [likelihood |-> <<0>>, num_params |-> <<1>>, model_name |-> <<"BM">>]
    /\ Len(cmp.comparison) = 2
    /\ cmp.comparison[1].model_name = "BM" /\ cmp.comparison[1].aic = 2
    /\ cmp.comparison[2].model_name = "OU" /\ cmp.comparison[2].aic = 8

\* the node the down-pass is at
DownNode == Postorder(heap[cur])[idx]

\* the states every child of n holds, and the states some child of n holds
CommonStates(t, n) == {s \in States : \A c \in Children(t, n) : s \in t.states[c]}
ChildrenStates(t, n) == {s \in States : \E c \in Children(t, n) : s \in t.states[c]}

\* C21: a down-pass step finds every child of its node processed and the node
\* itself not yet; it gives a leaf the singleton of its observed value, and a
\* node with two or more children the states common to all its children when
\* there are some, else all the states of its children.
C21_DownPassRule ==
    [][pc = "down" =>
          /\ Children(heap[cur], DownNode) \subseteq DOMAIN heap[cur].states
          /\ DownNode \notin DOMAIN heap[cur].states
          /\ IsLeaf(heap[cur], DownNode) =>
                heap'[cur].states[DownNode] = {traits[DownNode]}
          /\ Cardinality(Children(heap[cur], DownNode)) >= 2 =>
                heap'[cur].states[DownNode] =
                    IF CommonStates(heap[cur], DownNode) # {}
                    THEN CommonStates(heap[cur], DownNode)
                    ELSE ChildrenStates(heap[cur], DownNode)]_vars

\* the down-pass has ended on a tree with a node whose children share some
\* but not all of their states, below a node whose children share none
C21_Witness ==
    /\ pc = "root"
    /\ \E n, m \in Nodes(heap[cur]) :
          /\ Cardinality(Children(heap[cur], n)) >= 2
          /\ heap[cur].states[n] = CommonStates(heap[cur], n)
          /\ heap[cur].states[n] # ChildrenStates(heap[cur], n)
          /\ Cardinality(Children(heap[cur], m)) >= 2
          /\ CommonStates(heap[cur], m) = {}
          /\ heap[cur].states[m] = ChildrenStates(heap[cur], m)

\* C22: in the returned tree every non-root internal node holds its parent's
\* resolved state when that state is in its candidate set, and the minimum of
\* its candidate set otherwise.
C22_InheritsOrTakesMinimum ==
    \A i \in DOMAIN results :
        LET t == ResultTree(i) IN
        \A n \in Nodes(t) :
            (~IsRoot(t, n) /\ ~IsLeaf(t, n)) =>
                t.state[n] = IF t.state[t.parent[n]] \in t.states[n]
                             THEN t.state[t.parent[n]]
                             ELSE Min(t.states[n])

\* no two children of n hold a common state
ChildrenPairwiseDisjoint(t, n) ==
    \A c, d \in Children(t, n) : c # d => t.states[c] \cap t.states[d] = {}

\* the down-pass is at a node with two or more children
AtMultiChildNode == pc = "down" /\ Cardinality(Children(heap[cur], DownNode)) >= 2

\* C23 as stated: the down-pass step at a node with two or more children adds
\* 1 to the score exactly when the children's candidate sets are pairwise
\* disjoint.
C23_CountsPairwiseDisjoint ==
    [][AtMultiChildNode =>
          ((score' = score + 1) <=> ChildrenPairwiseDisjoint(heap[cur], DownNode))]_vars

\* C23 amended: the step adds 1 exactly when no state is common to all the
\* children, and nothing otherwise; pairwise disjoint sets are always counted,
\* and for two children the two conditions are the same.
C23_CountsEmptyCommonIntersection ==
    [][AtMultiChildNode =>
          /\ score' = score + (IF CommonStates(heap[cur], DownNode) = {} THEN 1 ELSE 0)
          /\ ChildrenPairwiseDisjoint(heap[cur], DownNode) => score' = score + 1
          /\ Cardinality(Children(heap[cur], DownNode)) = 2 =>
                ((score' = score + 1) <=> ChildrenPairwiseDisjoint(heap[cur], DownNode))]_vars

\* the down-pass has counted a node of three children, two of which hold the
\* same state
C23_Witness ==
    /\ pc \in {"down", "root"}
    /\ score = 1
    /\ \E n \in DOMAIN heap[cur].states :
          /\ Cardinality(Children(heap[cur], n)) = 3
          /\ CommonStates(heap[cur], n) = {}
          /\ ~ChildrenPairwiseDisjoint(heap[cur], n)

\* the trees whose down-pass is complete
DownPassDone(k) ==
    \/ k = cur /\ pc \in {"root", "up", "return"}
    \/ \E i \in DOMAIN results : results[i].annotated_tree = k

\* C24: no node ever holds an empty candidate set, and once the down-pass of
\* a tree is complete every one of its nodes holds a candidate set.
C24_CandidateSetsNonEmpty ==
    \A k \in DOMAIN heap :
        /\ \A n \in DOMAIN heap[k].states : heap[k].states[n] # {}
        /\ DownPassDone(k) => DOMAIN heap[k].states = Nodes(heap[k])

\* the down-pass has ended on a tree with a unary node and with a node whose
\* children share no state
C24_Witness ==
    /\ pc = "root"
    /\ DOMAIN heap[cur].states = Nodes(heap[cur])
    /\ \E n, m \in Nodes(heap[cur]) :
          /\ IsUnary(heap[cur], n)
          /\ Cardinality(Children(heap[cur], m)) >= 2
          /\ CommonStates(heap[cur], m) = {}

\* the number of branches of the returned tree whose ends are resolved to
\* different states
ResultChanges(i) == Changes(ResultTree(i), ResultTree(i).state)

AtMostBinary(t) == \A n \in Nodes(t) : Cardinality(Children(t, n)) <= 2

\* C25: the returned tree has at least as many changed branches as the score
\* says, and exactly as many when no node has more than two children.
C25_ChangesMatchScore ==
    \A i \in DOMAIN results :
        /\ ResultChanges(i) >= ResultScore(i)
        /\ AtMostBinary(ResultTree(i)) => ResultChanges(i) = ResultScore(i)

\* a returned tree of five nodes, none with more than two children, with two
\* changed branches
C25_Witness ==
    \E i \in DOMAIN results :
        /\ AtMostBinary(ResultTree(i))
        /\ Cardinality(Nodes(ResultTree(i))) = 5
        /\ ResultScore(i) = 2
        /\ ResultChanges(i) = 2

\* C26: the returned score is 0 exactly when all leaves hold the same
\* observed state.
C26_ZeroIffUniform ==
    \A i \in DOMAIN results :
        (ResultScore(i) = 0) <=>
            (\A a, b \in Leaves(ResultTree(i)) : traits[a] = traits[b])

\* a run on a star tree of three leaves below a unary root, all leaves equal
C26_Witness ==
    \E i \in DOMAIN results :
        /\ IsUnary(ResultTree(i), Root(ResultTree(i)))
        /\ Cardinality(Leaves(ResultTree(i))) = 3
        /\ ResultScore(i) = 0

\* a is n or an ancestor of n
RECURSIVE AncestorOrSelf(_, _, _)
AncestorOrSelf(t, a, n) ==
    IF a = n THEN TRUE
    ELSE IF IsRoot(t, n) THEN FALSE
    ELSE AncestorOrSelf(t, a, t.parent[n])

\* the observed states of the leaves below n
SubtreeObserved(t, n) == {traits[l] : l \in {m \in Leaves(t) : AncestorOrSelf(t, n, m)}}

\* C30: every candidate set holds observed states of leaves of the node's
\* subtree only.
C30_CandidatesFromSubtree ==
    \A k \in DOMAIN heap : \A n \in DOMAIN heap[k].states :
        heap[k].states[n] \subseteq SubtreeObserved(heap[k], n)

\* the down-pass has ended on a tree one of whose nodes holds fewer states
\* than its subtree shows, another all the states of its subtree
C30_Witness ==
    /\ pc = "root"
    /\ \E n, m \in Nodes(heap[cur]) :
          /\ heap[cur].states[n] # SubtreeObserved(heap[cur], n)
          /\ ~IsLeaf(heap[cur], m)
          /\ Cardinality(heap[cur].states[m]) = 2
          /\ heap[cur].states[m] = SubtreeObserved(heap[cur], m)

\* entry is not a 2-tuple, or its first element is no BaseMethod, or its
\* second element is no dict
Malformed(entry) ==
    IF ~entry.tuple THEN TRUE
    ELSE entry.method \notin {"ParsimonyMethod", "MaximumLikelihoodMethod", "BayesianMethod"}
            \/ entry.config.none

MalformedPositions == {k \in DOMAIN ens.methods : Malformed(ens.methods[k])}

\* the exception the first malformed entry calls for
MalformedKind(entry) ==
    IF ~entry.tuple THEN "ValueError"
    ELSE IF entry.method \notin {"ParsimonyMethod", "MaximumLikelihoodMethod", "BayesianMethod"}
         THEN "TypeError"
    ELSE "ValueError"

\* C27: in a run over a list whose first malformed entry is at position i,
\* nothing is ever returned and no method at position i or above is started;
\* the run ends by raising ValueError or TypeError once the methods at the
\* positions below i have all been run, in order.
C27_MalformedEntryFoundInLoop ==
    (ens.called /\ MalformedPositions # {}) =>
        LET i == Min(MalformedPositions) IN
        /\ results = <<>>
        /\ Len(runLog) <= i - 1
        /\ \A k \in DOMAIN runLog : runLog[k] = k
        /\ IF ens.active
           THEN raised = ""
           ELSE /\ raised = MalformedKind(ens.methods[i])
                /\ Len(runLog) = i - 1
                /\ pc = "idle"

\* a run whose first method ran Fitch and whose second entry holds no method
\* has raised TypeError
C27_Witness ==
    /\ ens.called
    /\ ~ens.active
    /\ Len(ens.methods) = 2
    /\ MalformedPositions = {2}
    /\ runLog = <<1>>
    /\ Len(heap) = 2
    /\ raised = "TypeError"
    /\ results = <<>>

\* a step in which a reconstruction method is started or goes on: a Pipeline
\* is constructed or run, a tree is copied, the ensemble announces a method,
\* a traversal moves or a value is returned
MethodActivity ==
    \/ pipe' # pipe
    \/ heap' # heap
    \/ runLog' # runLog
    \/ results' # results
    \/ ens' # ens
    \/ pc' # pc

\* C28: in any sequence of load_data and reconstruct_ancestors calls on one
\* framework, phylo_data leaves None only in a load_data call whose loader
\* returned validated data; while it is None no Pipeline exists and no step
\* of a reconstruction method is taken; and a reconstruct_ancestors call made
\* while it is None raises ValueError and creates no Pipeline.
C28_NoMethodBeforeLoad ==
    [][ /\ (fw.phylo_data = <<>> /\ fw'.phylo_data # <<>>)
            => /\ fw'.last = "load_data"
               /\ fw'.calls = fw.calls + 1
               /\ loaded'.status = "ok"
               /\ raised' = ""
        /\ fw.phylo_data = <<>>
            => /\ pipe = NoPipe
               /\ ~fw.running
               /\ ~MethodActivity
        /\ (fw.phylo_data = <<>> /\ fw'.calls # fw.calls
              /\ fw'.last = "reconstruct_ancestors")
            => /\ raised' = "ValueError"
               /\ pipe' = NoPipe
               /\ fw'.reconstruction_results = <<>>
      ]_vars

\* reconstruct_ancestors was called after a failed load_data and before any
\* successful one
C28_Witness ==
    /\ fw.phylo_data = <<>>
    /\ fw.calls = 2
    /\ fw.last = "reconstruct_ancestors"
    /\ loaded.status = "error"
    /\ raised = "ValueError"
    /\ pipe = NoPipe

\* the step in which a load_data call is made
LoadDataStep == fw'.calls = fw.calls + 1 /\ fw'.last = "load_data"

\* the step in which a reconstruct_ancestors call ends with an exception:
\* at its start, or when the running method raises
ReconstructRaises ==
    /\ raised' # ""
    /\ \/ fw'.calls = fw.calls + 1 /\ fw'.last = "reconstruct_ancestors"
       \/ fw.running /\ ~fw'.running

\* C29: a load_data call that raises leaves phylo_data, tree and counts at
\* their previous values; a reconstruct_ancestors call that raises (no data,
\* unknown method name, configuration error, unimplemented method) leaves
\* reconstruction_results at its previous value, as does every step of a call
\* that has not returned; a load_data call, successful or not, never modifies
\* reconstruction_results; reconstruction_results changes only in the step in
\* which a run returns its value.
C29_FailedCallsKeepState ==
    [][ /\ (LoadDataStep /\ raised' # "")
            => /\ loaded'.status = "error"
               /\ fw'.phylo_data = fw.phylo_data
               /\ fw'.tree = fw.tree
               /\ fw'.counts = fw.counts
        /\ LoadDataStep
            => fw'.reconstruction_results = fw.reconstruction_results
        /\ (LoadDataStep /\ raised' = "")
            => /\ fw'.phylo_data = <<fw'.calls>>
               /\ fw'.tree = fw'.phylo_data
               /\ fw'.counts = fw'.phylo_data
        /\ ReconstructRaises
            => /\ fw'.reconstruction_results = fw.reconstruction_results
               /\ fw'.phylo_data = fw.phylo_data
               /\ fw'.tree = fw.tree
               /\ fw'.counts = fw.counts
        /\ fw'.running
            => fw'.reconstruction_results = fw.reconstruction_results
        /\ fw'.reconstruction_results # fw.reconstruction_results
            => /\ fw.running /\ ~fw'.running
               /\ raised' = ""
               /\ Len(results') = Len(results) + 1
               /\ fw'.reconstruction_results = <<Len(results')>>
      ]_vars

\* the third call, a reconstruct_ancestors whose method ran and raised, came
\* after a successful reconstruction whose result is still stored
C29_Witness ==
    /\ fw.calls = 3
    /\ fw.last = "reconstruct_ancestors"
    /\ ~fw.running
    /\ raised = "NotImplementedError"
    /\ pipe.calls # <<>>
    /\ pipe.returned = <<>>
    /\ fw.phylo_data = <<1>>
    /\ fw.reconstruction_results = <<1>>
    /\ Len(results) = 1
====
